---- MODULE Spec2Model ----
(***************************************************************************)
(* Model of the RTL Content Fixer content script (content.js, v1.1.2):     *)
(* the candidate filter, the style corrector, the tree walker, the scan    *)
(* pass, the debounced mutation handler, the observer lifecycle, the       *)
(* settings retrieval with retries and the updateState listener.           *)
(***************************************************************************)
EXTENDS Integers, Sequences, FiniteSets, TLC

(***************************************************************************)
(* Bounds of the model.                                                    *)
(***************************************************************************)
\* number of elements below document.body; element e hangs under e \div 2
NumElems == 3
\* host-page mutations (text changes, insertions, removals) per behaviour
MaxPageOps == 2
\* updateState notifications delivered per behaviour
MaxMsgs == 2
\* updateState messages and page operations together in one behaviour
MaxOps == 3
\* mutation records one observer callback can carry
MaxBatch == 2
\* background onMessage handlers that can be running at the same time
NumHandlers == 2
\* ms by which one step of the clock advances the time
TickMs == 200

(***************************************************************************)
(* Program constants.                                                      *)
(***************************************************************************)
\* getSettingsWithRetry(maxRetries = 5, initialDelay = 200)
maxRetries == 5
initialDelay == 200
\* debounce(..., 400): the debounce window in ms
wait == 400

\* RTL_REGEX: U+0600-06FF, U+0750-077F, U+08A0-08FF, U+FB50-FDFF, U+FE70-FEFF
RTL_REGEX(c) ==
    \/ (1536 <= c /\ c <= 1791)
    \/ (1872 <= c /\ c <= 1919)
    \/ (2208 <= c /\ c <= 2303)
    \/ (64336 <= c /\ c <= 65023)
    \/ (65136 <= c /\ c <= 65279)

\* RTL_REGEX.test(text); text is a sequence of UTF-16 code units
RTL_REGEX_test(text) == \E i \in 1..Len(text) : RTL_REGEX(text[i])

TARGET_TAGS == {"P", "LI", "TD", "TH", "H1", "H2", "H3", "H4", "H5", "H6",
                "BLOCKQUOTE", "ARTICLE", "SECTION", "ASIDE", "SUMMARY",
                "FIGCAPTION", "DD", "DT"}

\* the tag names of SKIP_SELECTORS; [contenteditable="true"] is the field editable
SKIP_TAGS == {"SCRIPT", "STYLE", "NOSCRIPT", "CODE", "PRE", "KBD", "VAR",
              "SAMP", "TEXTAREA", "INPUT", "SVG", "MATH", "IFRAME"}

\* an attribute that is not present on the element
Absent == "<absent>"

\* values the system writes into data-rtl-fixer-processed
ProcessedValues == {"hidden", "no-rtl", "already-rtl", "style-error",
                    "checked-subtree", "scan-checked"}

(***************************************************************************)
(* The document.  Elements are 1..NumElems; 0 stands for document.body.    *)
(* dom[e] is the state of element e:                                       *)
(*   tag, editable      tag name and contenteditable="true"                *)
(*   attached           e is a child of Parent(e)                          *)
(*   text               data of e's own text node (code units)             *)
(*   hidden             computed display is none or visibility is hidden   *)
(*   cssDir             direction given to e by the page's style sheets    *)
(*   csFail             which computed-style reads of e throw              *)
(*   dir, align         element.style.direction / element.style.textAlign  *)
(*   pageDir, pageAlign the inline values the page itself gave the element *)
(*   processed, styled  the two marker attributes                          *)
(***************************************************************************)
VARIABLES
    dom,              \* the elements of the page
    body,             \* document.body is available
    readyState,       \* document.readyState
    isEnabled,        \* content.js state variables
    excludedSites,
    currentHostname,
    observer,         \* observer # null
    observerActive,
    secondScanTimer,  \* secondScanTimer # null
    liveObservers,    \* MutationObserver objects currently observing the body
    records,          \* mutation records queued for the observer callback
    debounceTimer,    \* pending debounce timer with its arguments, or NoTimer
    initialScanTimer, \* the 50 ms timer of runInitialScan is pending
    dclListener,      \* runInitialScan is registered for DOMContentLoaded
    fallbackPending,  \* the 3750 ms timer of the delayed second scan is pending
    startRetries,     \* pending setTimeout(startObserver, 100) timers
    pc,               \* position of initialize: "request" (awaiting a response),
                      \* "backoff" (waiting between attempts), "done" (settings
                      \* processed), "failed" (no settings), "threw"
    attempt,          \* loop variable of getSettingsWithRetry
    delay,            \* the delay being waited between two attempts, or 0
    escaped,          \* an exception left initialize
    scanLog,          \* reasons of the scan passes that passed the guard
    responses,        \* sendResponse calls of the last onMessage turn
    unloadRan,        \* the beforeunload listener has run
    lastPass,         \* the batch of the last mutation-processing pass and the
                      \* processed markers the elements carried when it began
    pageOps,          \* host-page mutations so far
    msgs,             \* updateState notifications so far
    background,       \* background.js: the stored excludedSites and the state
                      \* of its onMessage handlers
    schedule          \* what the pending timers owe to the order in which they
                      \* were set: whether the 50 ms timer was set in the same
                      \* turn as the 3750 ms timer, and the turn of the 100 ms
                      \* start retry

vars == <<dom, body, readyState, isEnabled, excludedSites, currentHostname,
          observer, observerActive, secondScanTimer, liveObservers, records,
          debounceTimer, initialScanTimer, dclListener, schedule, fallbackPending,
          startRetries, pc, attempt, delay, escaped, scanLog, responses, unloadRan,
          lastPass, pageOps, msgs, background>>

Elems == 1..NumElems
Parent(e) == e \div 2
\* node.children of element e (0: of the body), in document order
Children(d, p) ==
    LET c1 == IF p = 0 THEN 1 ELSE 2 * p
        c2 == 2 * p + 1
        s1 == IF c1 \in Elems /\ d[c1].attached THEN <<c1>> ELSE <<>>
        s2 == IF p # 0 /\ c2 \in Elems /\ d[c2].attached THEN <<c2>> ELSE <<>>
    IN  s1 \o s2

\* element.isConnected
RECURSIVE isConnected(_, _)
isConnected(d, e) ==
    IF e = 0 THEN body
    ELSE d[e].attached /\ isConnected(d, Parent(e))

\* element.textContent: the text of e and of all its descendants
RECURSIVE textContent(_, _)
RECURSIVE textContentOfAll(_, _)
textContent(d, e) == d[e].text \o textContentOfAll(d, Children(d, e))
textContentOfAll(d, cs) ==
    IF cs = <<>> THEN <<>>
    ELSE textContent(d, Head(cs)) \o textContentOfAll(d, Tail(cs))

\* getComputedStyle(element).direction: the inline value wins over the style
\* sheets, and direction is inherited from the parent element
RECURSIVE computedDirection(_, _)
computedDirection(d, e) ==
    IF e = 0 THEN "ltr"
    ELSE IF d[e].dir # "" THEN d[e].dir
    ELSE IF d[e].cssDir # "" THEN d[e].cssDir
    ELSE IF d[e].attached THEN computedDirection(d, Parent(e))
    ELSE "ltr"

\* element.matches(SKIP_SELECTORS)
matchesSkip(el) == el.tag \in SKIP_TAGS \/ el.editable

hasProcessed(el) == el.processed # Absent
hasStyled(el) == el.styled

setProcessed(d, e, v) == [d EXCEPT ![e].processed = v]

\* isPotentialCandidate without the test of the two marker attributes
isPotentialCandidate_noMarkerTest(d, e) ==
    LET el == d[e]
        computedStyle == el.csFail \notin {"first", "both"}
        text == textContent(d, e)
    IN  IF matchesSkip(el) \/ ~isConnected(d, e)
        THEN [ret |-> FALSE, dom |-> d]
        ELSE IF computedStyle /\ el.hidden
        THEN [ret |-> FALSE, dom |-> setProcessed(d, e, "hidden")]
        ELSE IF text = <<>> \/ ~RTL_REGEX_test(text)
        THEN [ret |-> FALSE, dom |-> setProcessed(d, e, "no-rtl")]
        ELSE IF el.csFail \in {"second", "both"}
        THEN [ret |-> FALSE, dom |-> setProcessed(d, e, "style-error")]
        ELSE IF computedDirection(d, e) = "rtl"
        THEN [ret |-> FALSE, dom |-> setProcessed(d, e, "already-rtl")]
        ELSE [ret |-> TRUE, dom |-> d]

\* isPotentialCandidate testing the text before the visibility
isPotentialCandidate_textFirst(d, e) ==
    LET el == d[e]
        computedStyle == el.csFail \notin {"first", "both"}
        text == textContent(d, e)
    IN  IF matchesSkip(el) \/ ~isConnected(d, e)
        THEN [ret |-> FALSE, dom |-> d]
        ELSE IF hasProcessed(el) \/ hasStyled(el)
        THEN [ret |-> FALSE, dom |-> d]
        ELSE IF text = <<>> \/ ~RTL_REGEX_test(text)
        THEN [ret |-> FALSE, dom |-> setProcessed(d, e, "no-rtl")]
        ELSE IF computedStyle /\ el.hidden
        THEN [ret |-> FALSE, dom |-> setProcessed(d, e, "hidden")]
        ELSE IF el.csFail \in {"second", "both"}
        THEN [ret |-> FALSE, dom |-> setProcessed(d, e, "style-error")]
        ELSE IF computedDirection(d, e) = "rtl"
        THEN [ret |-> FALSE, dom |-> setProcessed(d, e, "already-rtl")]
        ELSE [ret |-> TRUE, dom |-> d]

\* isPotentialCandidate(element): ret is the returned value, dom the document
\* with the marker the call wrote
isPotentialCandidate(d, e) ==
    LET el == d[e]
        \* try { computedStyle = getComputedStyle(element); ... } catch { computedStyle = null }
        computedStyle == el.csFail \notin {"first", "both"}
        text == textContent(d, e)
    IN  IF matchesSkip(el) \/ ~isConnected(d, e)
        THEN [ret |-> FALSE, dom |-> d]
        ELSE IF hasProcessed(el) \/ hasStyled(el)
        THEN [ret |-> FALSE, dom |-> d]
        ELSE IF computedStyle /\ el.hidden
        THEN [ret |-> FALSE, dom |-> setProcessed(d, e, "hidden")]
        ELSE IF text = <<>> \/ ~RTL_REGEX_test(text)
        THEN [ret |-> FALSE, dom |-> setProcessed(d, e, "no-rtl")]
        ELSE IF el.csFail \in {"second", "both"}
        THEN [ret |-> FALSE, dom |-> setProcessed(d, e, "style-error")]
        ELSE IF computedDirection(d, e) = "rtl"
        THEN [ret |-> FALSE, dom |-> setProcessed(d, e, "already-rtl")]
        ELSE [ret |-> TRUE, dom |-> d]

applyRtlStyle(d, e) ==
    [d EXCEPT ![e].dir = "rtl", ![e].align = "right",
              ![e].styled = TRUE, ![e].processed = Absent]

\* nodes handed to checkAndFixNode: an element, or the text node of an element
NullNode == [kind |-> "null", of |-> 0]
ElemNode(e) == [kind |-> "elem", of |-> e]
TextNode(e) == [kind |-> "text", of |-> e]
Nodes == {ElemNode(e) : e \in Elems} \cup {TextNode(e) : e \in Elems}

\* applyRtlStyle(element) throws: element.style is undefined, the assignment
\* element.style.direction = 'rtl' raises a TypeError before anything is written
applyRtlStyleThrows(d, e) == d[e].styleThrows

\* the body of checkAndFixNode: dom is the document when the call ends, threw
\* tells whether it ended by an exception, which the loop over node.children
\* does not catch
RECURSIVE checkAndFixNodeBody(_, _)
RECURSIVE checkAndFixChildren(_, _)
checkAndFixNodeBody(d, node) ==
    IF node = NullNode THEN [dom |-> d, threw |-> FALSE]
    ELSE
        LET e == node.of
            \* a text node resolves to its parent element, whose marker is cleared
            d1 == IF node.kind = "text" THEN setProcessed(d, e, Absent) ELSE d
        IN  IF matchesSkip(d1[e]) \/ ~isConnected(d1, e)
            THEN [dom |-> d1, threw |-> FALSE]
            ELSE
                LET c == isPotentialCandidate(d1, e)
                    d2 == IF c.ret THEN applyRtlStyle(c.dom, e)
                          ELSE IF ~hasProcessed(c.dom[e]) /\ ~hasStyled(c.dom[e])
                               THEN setProcessed(c.dom, e, "checked-subtree")
                               ELSE c.dom
                IN  IF c.ret /\ applyRtlStyleThrows(c.dom, e)
                    THEN [dom |-> c.dom, threw |-> TRUE]
                    ELSE checkAndFixChildren(d2, Children(d2, e))
checkAndFixChildren(d, cs) ==
    IF cs = <<>> THEN [dom |-> d, threw |-> FALSE]
    ELSE LET r == checkAndFixNodeBody(d, ElemNode(Head(cs)))
         IN  IF r.threw THEN r ELSE checkAndFixChildren(r.dom, Tail(cs))

\* checkAndFixNode(node) without the loop over node.children
checkAndFixNode_rootOnly(d, node) ==
    IF node = NullNode THEN d
    ELSE LET e == node.of
             d1 == IF node.kind = "text" THEN setProcessed(d, e, Absent) ELSE d
             c == isPotentialCandidate(d1, e)
         IN  IF matchesSkip(d1[e]) \/ ~isConnected(d1, e) THEN d1
             ELSE IF c.ret
                  THEN (IF applyRtlStyleThrows(c.dom, e) THEN c.dom
                        ELSE applyRtlStyle(c.dom, e))
                  ELSE c.dom

\* checkAndFixNode(node) as the mutation handler calls it, inside try/catch:
\* the document it leaves, whether it returned or threw
checkAndFixNode(d, node) == checkAndFixNodeBody(d, node).dom

\* container.querySelectorAll('*'): every descendant of p, in document order
RECURSIVE querySelectorAllTargets_anyTag(_, _)
querySelectorAllTargets_anyTag(d, p) ==
    LET cs == Children(d, p)
        sub[i \in 0..Len(cs)] ==
            IF i = 0 THEN <<>>
            ELSE sub[i - 1] \o <<cs[i]>> \o querySelectorAllTargets_anyTag(d, cs[i])
    IN  sub[Len(cs)]

\* container.querySelectorAll(TARGET_TAGS.join(',')) with container = document.body:
\* the descendants of p with a listed tag, in document order
RECURSIVE querySelectorAllTargets(_, _)
RECURSIVE querySelectorAllTargetsOfAll(_, _)
querySelectorAllTargets(d, p) == querySelectorAllTargetsOfAll(d, Children(d, p))
querySelectorAllTargetsOfAll(d, cs) ==
    IF cs = <<>> THEN <<>>
    ELSE LET c == Head(cs)
         IN  (IF d[c].tag \in TARGET_TAGS THEN <<c>> ELSE <<>>)
             \o querySelectorAllTargets(d, c)
             \o querySelectorAllTargetsOfAll(d, Tail(cs))

\* the forEach body of runScan marking every rejected element scan-checked
RECURSIVE scanCandidates_marksAll(_, _)
scanCandidates_marksAll(d, els) ==
    IF els = <<>> THEN d
    ELSE LET el == Head(els)
             c == isPotentialCandidate(d, el)
             d1 == IF c.ret
                   THEN (IF applyRtlStyleThrows(c.dom, el) THEN c.dom
                         ELSE applyRtlStyle(c.dom, el))
                   ELSE setProcessed(c.dom, el, "scan-checked")
         IN  scanCandidates_marksAll(d1, Tail(els))

\* the forEach body of runScan, for the candidates in order
RECURSIVE scanCandidates(_, _)
scanCandidates(d, els) ==
    IF els = <<>> THEN d
    ELSE LET el == Head(els)
             c == isPotentialCandidate(d, el)
             \* the catch of the forEach body leaves the element as it is
             d1 == IF c.ret
                   THEN (IF applyRtlStyleThrows(c.dom, el) THEN c.dom
                         ELSE applyRtlStyle(c.dom, el))
                   ELSE IF ~hasProcessed(c.dom[el]) /\ ~hasStyled(c.dom[el])
                        THEN setProcessed(c.dom, el, "scan-checked")
                        ELSE c.dom
         IN  scanCandidates(d1, Tail(els))

\* includes(): membership in an array
includes(list, h) == \E i \in 1..Len(list) : list[i] = h

\* JavaScript truthiness of the values isEnabled can hold
Truthy(v) == v \in {"true", "str"}
\* currentHostname is falsy when it is null or the empty string
HostTruthy(h) == h # ""

\* the guard of runScan without the test of the exclusion list
runScanSkipped_ignoresExclusion(en, excl, host) == ~Truthy(en)

\* the guard of runScan: the scan is skipped when this holds
runScanSkipped(en, excl, host) ==
    ~Truthy(en) \/ (HostTruthy(host) /\ includes(excl, host))

\* runScan(reason) with the default container document.body; ran tells whether
\* the pass went past its guards
runScan(d, en, excl, host) ==
    IF runScanSkipped(en, excl, host) THEN [ran |-> FALSE, dom |-> d]
    ELSE IF ~body THEN [ran |-> FALSE, dom |-> d]
    ELSE [ran |-> TRUE, dom |-> scanCandidates(d, querySelectorAllTargets(d, 0))]

\* revertAllStyles removing the markers but leaving the inline styles
revertAllStyles_keepsStyle(d) ==
    [e \in Elems |->
        IF isConnected(d, e) /\ hasStyled(d[e])
        THEN [d[e] EXCEPT !.styled = FALSE, !.processed = Absent]
        ELSE d[e]]

\* revertAllStyles(): every element of the document carrying the styled marker
revertAllStyles(d) ==
    [e \in Elems |->
        IF isConnected(d, e) /\ hasStyled(d[e])
        THEN [d[e] EXCEPT !.dir = "", !.align = "", !.styled = FALSE,
                          !.processed = Absent]
        ELSE d[e]]

(***************************************************************************)
(* Inputs: texts, host names, settings responses, updateState payloads.    *)
(***************************************************************************)
\* "H" and the Arabic letter seen
Latin == <<72>>
Arabic == <<1587>>
Texts == {Latin, Arabic}

ThisHost == "a.com"
OtherHost == "b.org"
\* values of an excludedSites array
ExclLists == {<<>>, <<ThisHost>>, <<OtherHost>>}

\* a response to { action: 'getSettings' }: the request throws, the response is
\* missing, or it is an object; isEnabled is "true", "false", "undefined" or
\* "str" (a non-boolean such as "yes"); excludedSites is an array or not
Response(kind, en, isArr, excl) ==
    [kind |-> kind, isEnabled |-> en, isArray |-> isArr, excludedSites |-> excl]
Responses ==
    {Response("throw", "undefined", FALSE, <<>>),
     Response("missing", "undefined", FALSE, <<>>),
     Response("object", "undefined", TRUE, <<>>),
     Response("object", "true", FALSE, <<>>)}
    \cup {Response("object", en, TRUE, excl) :
            en \in {"true", "false", "str"}, excl \in ExclLists}

\* the payload of an updateState notification; a field may be absent
Payload(en, hasExcl, excl) ==
    [isEnabled |-> en, hasExcluded |-> hasExcl, excludedSites |-> excl]
Payloads ==
    {Payload(en, FALSE, <<>>) : en \in {"undefined", "true", "false"}}
    \cup {Payload(en, TRUE, excl) :
            en \in {"undefined", "true", "false"}, excl \in ExclLists}

(***************************************************************************)
(* Observer and timers.                                                    *)
(***************************************************************************)
\* the variables startObserver and stopObserver work on
ObserverState ==
    [observer |-> observer, observerActive |-> observerActive,
     live |-> liveObservers, records |-> records, retries |-> startRetries,
     secondScanTimer |-> secondScanTimer, fallbackPending |-> fallbackPending]

SetObserverState(o) ==
    /\ observer' = o.observer
    /\ observerActive' = o.observerActive
    /\ liveObservers' = o.live
    /\ records' = o.records
    /\ startRetries' = o.retries
    /\ secondScanTimer' = o.secondScanTimer
    /\ fallbackPending' = o.fallbackPending

\* the first guard of startObserver without the test of the existing observer
startObserverSkipped_noObserverTest(o, en, excl, host) ==
    ~Truthy(en) \/ (HostTruthy(host) /\ includes(excl, host))

\* the first guard of startObserver: nothing is started when this holds
startObserverSkipped(o, en, excl, host) ==
    o.observer \/ ~Truthy(en) \/ (HostTruthy(host) /\ includes(excl, host))

\* startObserver(); observeOk tells whether observer.observe() succeeds
startObserver(o, en, excl, host, observeOk) ==
    IF startObserverSkipped(o, en, excl, host) THEN o
    ELSE IF ~body THEN [o EXCEPT !.retries = @ + 1]
    ELSE IF observeOk
         THEN [o EXCEPT !.observer = TRUE, !.observerActive = TRUE, !.live = @ + 1]
         ELSE [o EXCEPT !.observer = FALSE, !.observerActive = FALSE]

\* stopObserver() without observer.disconnect()
stopObserver_noDisconnect(o) ==
    [o EXCEPT !.observer = FALSE, !.observerActive = FALSE,
              !.secondScanTimer = FALSE, !.fallbackPending = FALSE]

\* stopObserver(): disconnect() also drops the queued records
stopObserver(o) ==
    LET o1 == IF o.observer
              THEN [o EXCEPT !.observer = FALSE, !.observerActive = FALSE,
                             !.live = @ - 1, !.records = <<>>]
              ELSE o
    IN  IF o1.secondScanTimer
        THEN [o1 EXCEPT !.secondScanTimer = FALSE, !.fallbackPending = FALSE]
        ELSE o1

\* the timers of the debounced handler: pending tells that the timer whose id
\* the closure variable timeout holds has neither fired nor been cleared, args
\* are the arguments that timer will pass on, left is the time until it fires,
\* stale holds the arguments of timers that are pending without being
\* referenced by timeout
NoTimer == [pending |-> FALSE, args |-> <<>>, left |-> 0, stale |-> <<>>]
Timer(batch) == [pending |-> TRUE, args |-> batch, left |-> wait, stale |-> <<>>]

\* the debounced function without the clearTimeout before the new setTimeout
debounce_noClear(t, batch) ==
    [Timer(batch) EXCEPT
        !.stale = IF t.pending THEN Append(t.stale, t.args) ELSE t.stale]

\* a call of the debounced function with the arguments batch:
\* clearTimeout(timeout); timeout = setTimeout(later, wait)
debounce(t, batch) == [Timer(batch) EXCEPT !.stale = t.stale]

\* the timer referenced by timeout fires: later() runs clearTimeout(timeout),
\* which finds the timer gone, and calls the handler
later(t) == [NoTimer EXCEPT !.stale = t.stale]

\* the records of a batch
RecordsOf(batch) == {batch[i] : i \in 1..Len(batch)}

\* mutation records: childList with at most one added node, or characterData
ChildList(node) == [type |-> "childList", node |-> node]
CharacterData(e) == [type |-> "characterData", node |-> TextNode(e)]

\* a record of a change of an attribute of element e
Attributes(e) == [type |-> "attributes", node |-> ElemNode(e)]

\* options that ask for the changes of attributes too
observerOptions_withAttributes == {"childList", "characterData", "attributes"}

\* the options of observer.observe(document.body, ...), with subtree: true
observerOptions == {"childList", "characterData"}

\* the attribute records of the elements from e on that the writes turning d
\* into d2 have changed: the inline style and the two marker attributes
RECURSIVE AttributeRecords(_, _, _)
AttributeRecords(d, d2, e) ==
    IF e > NumElems THEN <<>>
    ELSE (IF /\ isConnected(d, e)
             /\ \/ d[e].dir # d2[e].dir
                \/ d[e].align # d2[e].align
                \/ d[e].processed # d2[e].processed
                \/ d[e].styled # d2[e].styled
          THEN <<Attributes(e)>> ELSE <<>>) \o AttributeRecords(d, d2, e + 1)

\* the queue of records after the system has turned d into d2
ownWrites(d, d2) ==
    IF liveObservers > 0 /\ "attributes" \in observerOptions
    THEN records \o AttributeRecords(d, d2, 1)
    ELSE records

\* the guard of the debounced mutation handler: it returns when this holds
handleMutationsSkipped(en, active, excl, host) ==
    ~Truthy(en) \/ ~active \/ (HostTruthy(host) /\ includes(excl, host))

\* the forEach body without the removal of the marker on a text change
RECURSIVE processMutations_keepsMarker(_, _)
processMutations_keepsMarker(d, batch) ==
    IF batch = <<>> THEN d
    ELSE processMutations_keepsMarker(
            IF Head(batch).type = "childList"
            THEN checkAndFixNode(d, Head(batch).node)
            ELSE checkAndFixNode(d, ElemNode(Head(batch).node.of)),
            Tail(batch))

\* the forEach body of the mutation handler, for the records in order
RECURSIVE processMutations(_, _)
processMutations(d, batch) ==
    IF batch = <<>> THEN d
    ELSE LET m == Head(batch)
             d1 == IF m.type = "childList"
                   THEN checkAndFixNode(d, m.node)
                   ELSE IF m.type = "characterData"
                   THEN \* target.parentElement is m.node.of
                        checkAndFixNode(setProcessed(d, m.node.of, Absent),
                                        ElemNode(m.node.of))
                   ELSE d
         IN  processMutations(d1, Tail(batch))

\* the function wrapped by debounce(..., 400)
handleMutations(d, batch, en, active, excl, host) ==
    IF handleMutationsSkipped(en, active, excl, host) THEN d
    ELSE processMutations(d, batch)

(***************************************************************************)
(* Settings retrieval.                                                     *)
(***************************************************************************)
\* settings && typeof settings.isEnabled !== 'undefined' && Array.isArray(settings.excludedSites)
validSettings(r) ==
    r.kind = "object" /\ r.isEnabled # "undefined" /\ r.isArray

\* the loop iteration without the catch around the error of the last attempt
getSettingsAttempt_uncaught(r, n) ==
    IF r.kind # "throw" /\ validSettings(r) THEN "return"
    ELSE IF n = maxRetries
         THEN (IF r.kind = "throw" THEN "null" ELSE "throw")
         ELSE "delay"

\* the loop iteration that waits and retries after every failed attempt
getSettingsAttempt_noCap(r, n) ==
    IF r.kind # "throw" /\ validSettings(r) THEN "return" ELSE "delay"

\* one iteration of the loop of getSettingsWithRetry: "return" (the settings),
\* "null", "delay" (wait, then the next attempt) or "throw"
getSettingsAttempt(r, n) ==
    LET tried == IF r.kind = "throw" THEN "thrown"
                 ELSE IF validSettings(r) THEN "return"
                 ELSE IF n = maxRetries THEN "thrown"
                 ELSE "delay"
    IN  IF tried = "thrown"
        THEN (IF n = maxRetries THEN "null" ELSE "delay")
        ELSE tried

\* initialDelay * Math.pow(4, attempt - 1)
RECURSIVE pow4(_)
pow4(k) == IF k = 0 THEN 1 ELSE 4 * pow4(k - 1)
retryDelay(n) == initialDelay * pow4(n - 1)

\* the activation test of initialize and of the updateState listener
shouldBeActive(en, excl, host) ==
    Truthy(en) /\ HostTruthy(host) /\ ~includes(excl, host)

(***************************************************************************)
(* background.js: the exclusion list in browser.storage.local and the      *)
(* onMessage handlers, which run concurrently between their awaits.        *)
(***************************************************************************)
\* the host names a popup can send
Hosts == {ThisHost, OtherHost}

\* DEFAULT_SETTINGS.excludedSites
DEFAULT_EXCLUDED == <<>>

\* DEFAULT_SETTINGS.isEnabled
DEFAULT_ENABLED == "true"

\* the host names a popup request can carry
Hostnames == Hosts \cup {""}

\* the tabs that tabs.query can return: the tab of this content script, alone or
\* after another http(s) tab
TabLists == {<<"this">>, <<"other", "this">>}

\* an entry of the log of a handler
Event(op, tab, ok) == [op |-> op, tab |-> tab, ok |-> ok]

\* excludedSites.indexOf(h), counted from 1; 0 when h is not in the list
indexOf(list, h) ==
    IF includes(list, h)
    THEN CHOOSE i \in 1..Len(list) :
            list[i] = h /\ \A j \in 1..(i - 1) : list[j] # h
    ELSE 0

\* excludedSites.splice(index, 1)
splice(list, i) == SubSeq(list, 1, i - 1) \o SubSeq(list, i + 1, Len(list))

\* a handler that is not running; response is the last sendResponse of the
\* handler, clean tells that no other handler worked on the same host name
\* while this one ran
\* payload is the payload of a toggleEnabled request, tabs the result of
\* tabs.query and log what the handler has done since it began: the write to the
\* storage and the sends to the tabs
IdleHandler ==
    [pc |-> "idle", action |-> "none", hostname |-> "", settings |-> <<>>,
     clean |-> TRUE, response |-> "none", payload |-> "undefined",
     tabs |-> <<>>, log |-> <<>>]

\* the state of the background script at start-up; answered[h] is the last
\* operation on h that was answered with success ("none": none, or one that
\* ran together with another operation on h)
\* storage is the stored excludedSites, enabled the stored isEnabled
BackgroundIdle ==
    [storage |-> <<>>,
     enabled |-> DEFAULT_ENABLED,
     handlers |-> [i \in 1..NumHandlers |-> IdleHandler],
     answered |-> [h \in Hosts |-> "none"]]

\* a handler other than i is working on host name h
inFlight(bg, i, h) ==
    \E j \in 1..NumHandlers :
        j # i /\ bg.handlers[j].pc # "idle" /\ bg.handlers[j].hostname = h

\* getSettings(): the stored list, or the default when storage.local.get throws
getSettings(bg, getOk) == IF getOk THEN bg.storage ELSE DEFAULT_EXCLUDED

\* getSettings().isEnabled
getSettingsEnabled(bg, getOk) == IF getOk THEN bg.enabled ELSE DEFAULT_ENABLED

\* the payload of the updateState notification of a handler
notification(me) ==
    IF me.action = "toggleEnabled" THEN Payload(me.payload, FALSE, <<>>)
    ELSE Payload("undefined", TRUE, me.settings)

\* the number of tabs the loop of notifyAllTabs has been through
sends(me) == Len(SelectSeq(me.log, LAMBDA ev : ev.op = "send"))

\* a loop that ends at the first send that fails
loopDone_endsOnFailure(me) ==
    \/ sends(me) = Len(me.tabs)
    \/ \E k \in 1..Len(me.log) : me.log[k].op = "send" /\ ~me.log[k].ok

\* the loop over the tabs has ended
loopDone(me) == sends(me) = Len(me.tabs)

\* the list the handler writes back: push(hostname) or splice(index, 1)
changedList(action, list, h) ==
    IF action = "addExcludedSite" THEN Append(list, h)
    ELSE splice(list, indexOf(list, h))

\* the test without !settings.excludedSites.includes(hostname)
applicable_noIncludesTest(action, list, h) ==
    IF action = "addExcludedSite" THEN HostTruthy(h)
    ELSE HostTruthy(h) /\ indexOf(list, h) > 0

\* the test that decides whether the handler changes the list
applicable(action, list, h) ==
    IF action = "addExcludedSite" THEN HostTruthy(h) /\ ~includes(list, h)
    ELSE HostTruthy(h) /\ indexOf(list, h) > 0

(***************************************************************************)
(* Initial states.                                                         *)
(***************************************************************************)
\* an element the system has not touched yet
Element(tag, text) ==
    [tag |-> tag, editable |-> FALSE, attached |-> TRUE, text |-> text,
     hidden |-> FALSE, cssDir |-> "", csFail |-> "ok",
     dir |-> "", align |-> "", pageDir |-> "", pageAlign |-> "",
     processed |-> Absent, styled |-> FALSE, styleThrows |-> FALSE]

\* the pages of the lifecycle specifications: a DIV without text of its own
\* holding a P with Latin or Arabic text and a PRE with Arabic text
PageTag(e) == IF e % 3 = 1 THEN "DIV" ELSE IF e % 3 = 2 THEN "P" ELSE "PRE"
PageDoms ==
    {[e \in Elems |->
        Element(PageTag(e),
                IF PageTag(e) = "DIV" THEN <<>>
                ELSE IF PageTag(e) = "P" THEN txt[e] ELSE Arabic)] :
        txt \in [Elems -> {Latin, Arabic}]}

pageVars == <<body, readyState>>
settingsVars == <<isEnabled, excludedSites>>
observerVars == <<observer, observerActive, liveObservers, records,
                  startRetries, secondScanTimer, fallbackPending>>
retrievalVars == <<pc, attempt, delay, escaped>>
budgetVars == <<pageOps, msgs>>
\* history of the mutation handling: batch and processed are the arguments of
\* the last processing pass and the processed markers the elements carried when
\* it began, burst the number of callbacks (2: two or more) that preceded it
\* since the timer fired before; callbacks, delivered and last describe the
\* callbacks since the timer fired last: their number (2: two or more), all
\* their records, and the batch of the latest one
NoPass ==
    [batch |-> <<>>, processed |-> [e \in Elems |-> Absent], burst |-> 0,
     callbacks |-> 0, delivered |-> {}, last |-> <<>>]

\* no 50 ms timer set together with the 3750 ms timer, no start retry re-armed
NoSchedule == [initialFirst |-> FALSE, retryTurn |-> 0]

\* the state when the content script has been evaluated: initialize is awaiting
\* the first getSettings response, the listeners are registered
ScriptLoaded ==
    /\ isEnabled = "false"
    /\ excludedSites = <<>>
    /\ observer = FALSE
    /\ observerActive = FALSE
    /\ secondScanTimer = FALSE
    /\ liveObservers = 0
    /\ records = <<>>
    /\ debounceTimer = NoTimer
    /\ initialScanTimer = FALSE
    /\ dclListener = FALSE
    /\ schedule = NoSchedule
    /\ fallbackPending = FALSE
    /\ startRetries = 0
    /\ pc = "request"
    /\ attempt = 1
    /\ delay = 0
    /\ escaped = FALSE
    /\ scanLog = {}
    /\ responses = <<>>
    /\ unloadRan = FALSE
    /\ lastPass = NoPass
    /\ pageOps = 0
    /\ msgs = 0
    /\ background = BackgroundIdle

Init ==
    /\ dom \in PageDoms
    /\ currentHostname \in {ThisHost, ""}
    /\ \/ body = FALSE /\ readyState = "loading"
       \/ body = TRUE /\ readyState = "loading"
       \/ body = TRUE /\ readyState = "complete"
    /\ ScriptLoaded

(***************************************************************************)
(* initialize and getSettingsWithRetry.                                    *)
(***************************************************************************)
\* initialize() after getSettingsWithRetry returned the settings r
initializeWithSettings(r, observeOk) ==
    LET en == r.isEnabled
        excl == r.excludedSites
        active == shouldBeActive(en, excl, currentHostname)
        ready == readyState \in {"complete", "interactive"}
        scheduled == [ObserverState EXCEPT !.secondScanTimer = TRUE,
                                           !.fallbackPending = TRUE]
    IN  /\ isEnabled' = en
        /\ excludedSites' = excl
        /\ initialScanTimer' = (initialScanTimer \/ (active /\ ready))
        /\ dclListener' = (dclListener \/ (active /\ ~ready))
        \* runInitialScan() and the fallback setTimeout run in the same turn:
        \* the 50 ms timer expires before the 3750 ms timer
        /\ schedule' = [schedule EXCEPT !.initialFirst = active /\ ready]
        /\ SetObserverState(
              IF active
              THEN startObserver(scheduled, en, excl, currentHostname, observeOk)
              ELSE stopObserver(ObserverState))

\* initialize() after getSettingsWithRetry returned null
initializeWithoutSettings ==
    /\ isEnabled' = "false"
    /\ excludedSites' = excludedSites
    /\ UNCHANGED <<initialScanTimer, dclListener, schedule>>
    /\ SetObserverState(stopObserver(ObserverState))

\* the background answers (or fails to answer) the pending getSettings request
settingsResponseArrives(r, observeOk) ==
    /\ pc = "request"
    /\ LET out == getSettingsAttempt(r, attempt)
       IN  IF out = "return"
           THEN /\ initializeWithSettings(r, observeOk)
                /\ pc' = "done"
                /\ UNCHANGED <<attempt, delay, escaped>>
           ELSE IF out = "null"
           THEN /\ initializeWithoutSettings
                /\ pc' = "failed"
                /\ UNCHANGED <<attempt, delay, escaped>>
           ELSE IF out = "delay"
           THEN /\ pc' = "backoff"
                /\ delay' = retryDelay(attempt)
                /\ UNCHANGED <<attempt, escaped, settingsVars, observerVars,
                               initialScanTimer, dclListener, schedule>>
           ELSE /\ pc' = "threw"
                /\ escaped' = TRUE
                /\ UNCHANGED <<attempt, delay, settingsVars, observerVars,
                               initialScanTimer, dclListener, schedule>>
    /\ UNCHANGED <<dom, pageVars, currentHostname, debounceTimer, scanLog,
                   responses, unloadRan, lastPass, budgetVars>>

\* the answer to the getSettings request comes from outside the model's
\* background script
SettingsResponse(r, observeOk) ==
    /\ settingsResponseArrives(r, observeOk)
    /\ UNCHANGED background

\* the delay between two attempts has elapsed; the next request is sent
BackoffElapsed ==
    /\ pc = "backoff"
    /\ pc' = "request"
    /\ attempt' = attempt + 1
    /\ delay' = 0
    /\ UNCHANGED <<dom, pageVars, settingsVars, currentHostname, background, observerVars,
                   debounceTimer, initialScanTimer, dclListener, schedule, escaped,
                   scanLog, responses, unloadRan, lastPass, budgetVars>>

(***************************************************************************)
(* The onMessage listener.                                                 *)
(***************************************************************************)
\* typeof payload.isEnabled === 'boolean' && isEnabled !== payload.isEnabled
enabledChanged(m, en) == m.isEnabled \in {"true", "false"} /\ en # m.isEnabled

\* the test of the excludedSites field without the comparison with the cached list
excludedChanged_noCompare(m, excl) == m.hasExcluded

\* Array.isArray(payload.excludedSites) &&
\* JSON.stringify(excludedSites) !== JSON.stringify(payload.excludedSites)
excludedChanged(m, excl) == m.hasExcluded /\ excl # m.excludedSites

\* a handler turn that does not answer
sendResponse_notCalled(sent, answer) == sent

\* sendResponse(answer), added to the answers of this handler turn
sendResponse(sent, answer) == Append(sent, answer)

\* the listener receives { action: 'updateState', payload: m }
updateStateListener(m, observeOk) ==
    /\ LET enChanged == enabledChanged(m, isEnabled)
           en == IF enChanged THEN m.isEnabled ELSE isEnabled
           exclChanged == excludedChanged(m, excludedSites)
           excl == IF exclChanged THEN m.excludedSites ELSE excludedSites
           needsReCheck == enChanged \/ exclChanged
           active == shouldBeActive(en, excl, currentHostname)
           scan == IF body THEN runScan(dom, en, excl, currentHostname)
                   ELSE [ran |-> FALSE, dom |-> dom]
       IN  /\ isEnabled' = en
           /\ excludedSites' = excl
           /\ IF needsReCheck /\ active /\ ~observerActive
              THEN /\ dom' = scan.dom
                   /\ scanLog' = IF scan.ran
                                 THEN scanLog \cup {"State Update Re-enable"}
                                 ELSE scanLog
                   /\ SetObserverState(startObserver(ObserverState, en, excl,
                                                     currentHostname, observeOk))
              ELSE IF needsReCheck /\ ~active /\ observerActive
              THEN /\ dom' = revertAllStyles(dom)
                   /\ scanLog' = scanLog
                   /\ SetObserverState(stopObserver(ObserverState))
              ELSE UNCHANGED <<dom, scanLog, observerVars>>
    /\ responses' = sendResponse(<<>>, [success |-> TRUE])
    /\ UNCHANGED <<pageVars, currentHostname, debounceTimer,
                   initialScanTimer, dclListener, schedule, retrievalVars, unloadRan,
                   lastPass, pageOps>>

\* an updateState message sent by something other than the model's background
\* script arrives
OnUpdateState(m, observeOk) ==
    /\ msgs < MaxMsgs
    /\ pageOps + msgs < MaxOps
    /\ msgs' = msgs + 1
    /\ updateStateListener(m, observeOk)
    /\ UNCHANGED background

(***************************************************************************)
(* Timers and document events.                                             *)
(***************************************************************************)
\* document.body becomes available
BodyAvailable ==
    /\ ~body
    /\ body' = TRUE
    /\ UNCHANGED <<dom, readyState, settingsVars, currentHostname, background, observerVars,
                   debounceTimer, initialScanTimer, dclListener, schedule, retrievalVars,
                   scanLog, responses, unloadRan, lastPass, budgetVars>>

\* DOMContentLoaded: the { once: true } listener runs runInitialScan
DOMContentLoaded ==
    /\ readyState = "loading"
    /\ readyState' = "interactive"
    /\ initialScanTimer' = (initialScanTimer \/ dclListener)
    /\ dclListener' = FALSE
    /\ UNCHANGED schedule
    /\ UNCHANGED <<dom, body, settingsVars, currentHostname, background, observerVars,
                   debounceTimer, retrievalVars, scanLog, responses, lastPass, unloadRan,
                   budgetVars>>

\* the 50 ms timer of runInitialScan fires
InitialScanFire ==
    /\ initialScanTimer
    /\ initialScanTimer' = FALSE
    /\ schedule' = [schedule EXCEPT !.initialFirst = FALSE]
    /\ LET scan == IF body THEN runScan(dom, isEnabled, excludedSites, currentHostname)
                   ELSE [ran |-> FALSE, dom |-> dom]
       IN  /\ dom' = scan.dom
           /\ records' = ownWrites(dom, scan.dom)
           /\ scanLog' = IF scan.ran THEN scanLog \cup {"Initial DOM Ready"}
                         ELSE scanLog
    /\ UNCHANGED <<pageVars, settingsVars, currentHostname, background, observer,
                   observerActive, liveObservers, startRetries, secondScanTimer,
                   fallbackPending,
                   debounceTimer, dclListener, retrievalVars, responses,
                   unloadRan, lastPass, budgetVars>>

\* the 3750 ms timer of the delayed second scan fires
SecondScanFire ==
    /\ fallbackPending
    \* a 50 ms timer set in the same turn has fired before
    /\ ~schedule.initialFirst
    /\ fallbackPending' = FALSE
    /\ secondScanTimer' = FALSE
    /\ LET scan == IF shouldBeActive(isEnabled, excludedSites, currentHostname) /\ body
                   THEN runScan(dom, isEnabled, excludedSites, currentHostname)
                   ELSE [ran |-> FALSE, dom |-> dom]
       IN  /\ dom' = scan.dom
           /\ records' = ownWrites(dom, scan.dom)
           /\ scanLog' = IF scan.ran THEN scanLog \cup {"Delayed Second Scan"}
                         ELSE scanLog
    /\ UNCHANGED <<pageVars, settingsVars, currentHostname, background, observer,
                   observerActive, liveObservers, startRetries,
                   debounceTimer, initialScanTimer, dclListener, schedule, retrievalVars,
                   responses, unloadRan, lastPass, budgetVars>>

\* a setTimeout(startObserver, 100) timer fires
StartRetryFire(observeOk) ==
    /\ startRetries > 0
    /\ LET o == startObserver([ObserverState EXCEPT !.retries = @ - 1],
                              isEnabled, excludedSites, currentHostname, observeOk)
       IN  /\ SetObserverState(o)
           \* the call set a new 100 ms timer, or none is left, or others are
           /\ schedule' = [schedule EXCEPT
                              !.retryTurn = IF o.retries >= startRetries THEN 1 - @
                                            ELSE IF o.retries = 0 THEN 0 ELSE @]
    /\ UNCHANGED <<dom, pageVars, settingsVars, currentHostname, background, debounceTimer,
                   initialScanTimer, dclListener, retrievalVars, scanLog,
                   responses, unloadRan, lastPass, budgetVars>>

\* the observer callback runs with the queued records: the debounced function
\* clears the pending timer and sets a new one holding these arguments
DeliverRecords ==
    /\ liveObservers > 0
    /\ records # <<>>
    /\ debounceTimer' = debounce(debounceTimer, records)
    /\ records' = <<>>
    /\ lastPass' = [lastPass EXCEPT
                       !.callbacks = IF @ < 2 THEN @ + 1 ELSE 2,
                       !.delivered = @ \cup RecordsOf(records),
                       !.last = records]
    /\ UNCHANGED <<dom, pageVars, settingsVars, currentHostname, background, observer,
                   observerActive, liveObservers, startRetries, secondScanTimer,
                   fallbackPending, initialScanTimer, dclListener, schedule,
                   retrievalVars, scanLog, responses, unloadRan, budgetVars>>

\* the debounce timer fires after 400 ms: the mutation handler runs
DebounceFire ==
    /\ debounceTimer.pending
    /\ debounceTimer' = later(debounceTimer)
    /\ dom' = handleMutations(dom, debounceTimer.args, isEnabled, observerActive,
                              excludedSites, currentHostname)
    /\ records' = ownWrites(dom, dom')
    /\ lastPass' = IF handleMutationsSkipped(isEnabled, observerActive,
                                             excludedSites, currentHostname)
                   THEN [lastPass EXCEPT !.callbacks = 0, !.delivered = {},
                                         !.last = <<>>]
                   ELSE [batch |-> debounceTimer.args,
                         processed |-> [e \in Elems |-> dom[e].processed],
                         burst |-> lastPass.callbacks,
                         callbacks |-> 0, delivered |-> {}, last |-> <<>>]
    /\ UNCHANGED <<pageVars, settingsVars, currentHostname, background, observer,
                   observerActive, liveObservers, startRetries, secondScanTimer,
                   fallbackPending,
                   initialScanTimer, dclListener, schedule, retrievalVars, scanLog,
                   responses, unloadRan, budgetVars>>

\* the beforeunload listener
BeforeUnload ==
    /\ ~unloadRan
    /\ unloadRan' = TRUE
    /\ SetObserverState(stopObserver(ObserverState))
    /\ UNCHANGED <<dom, pageVars, settingsVars, currentHostname, background, debounceTimer,
                   initialScanTimer, dclListener, schedule, retrievalVars, scanLog,
                   responses, lastPass, budgetVars>>

(***************************************************************************)
(* The host page mutates the document.                                     *)
(***************************************************************************)
\* a mutation below the body is queued for every observing observer
queueRecord(d, e, rec) ==
    IF liveObservers > 0 /\ isConnected(d, e) THEN Append(records, rec)
    ELSE records

PageStep(d, recs) ==
    /\ pageOps < MaxPageOps
    /\ pageOps + msgs < MaxOps
    /\ Len(recs) <= MaxBatch
    /\ pageOps' = pageOps + 1
    /\ dom' = d
    /\ records' = recs
    /\ UNCHANGED <<pageVars, settingsVars, currentHostname, background, observer,
                   observerActive, liveObservers, startRetries, secondScanTimer,
                   fallbackPending, debounceTimer, initialScanTimer,
                   dclListener, schedule, retrievalVars, scanLog, responses, unloadRan,
                   lastPass, msgs>>

\* the page changes the text of element e: a text node is added to an element
\* without text, or the data of the existing text node changes
PageSetText(e, t) ==
    /\ t # dom[e].text
    /\ LET rec == IF dom[e].text = <<>> THEN ChildList(TextNode(e))
                  ELSE CharacterData(e)
       IN  PageStep([dom EXCEPT ![e].text = t], queueRecord(dom, e, rec))

\* the page removes element e (with its subtree) from its parent
PageRemove(e) ==
    /\ dom[e].attached
    /\ PageStep([dom EXCEPT ![e].attached = FALSE],
                queueRecord(dom, e, ChildList(NullNode)))

\* the page inserts the removed element e (with its subtree) under its parent
PageInsert(e) ==
    /\ ~dom[e].attached
    /\ LET d == [dom EXCEPT ![e].attached = TRUE]
       IN  PageStep(d, queueRecord(d, e, ChildList(ElemNode(e))))

\* the content script on a page whose document the host page leaves alone
Next ==
    \/ \E r \in Responses, ok \in BOOLEAN : SettingsResponse(r, ok)
    \/ BackoffElapsed
    \/ \E m \in Payloads, ok \in BOOLEAN : OnUpdateState(m, ok)
    \/ BodyAvailable
    \/ DOMContentLoaded
    \/ InitialScanFire
    \/ SecondScanFire
    \/ \E ok \in BOOLEAN : StartRetryFire(ok)
    \/ BeforeUnload

Spec == Init /\ [][Next]_vars

\* the same, where a pending getSettings request is eventually answered or
\* rejected and a pending delay eventually elapses
SpecFair ==
    /\ Spec
    /\ WF_vars(\E r \in Responses, ok \in BOOLEAN : SettingsResponse(r, ok))
    /\ WF_vars(BackoffElapsed)

\* the same, where a pending 100 ms start retry timer eventually fires; nothing
\* is assumed about the body becoming available
SpecRetry ==
    /\ Spec
    /\ WF_vars(\E ok \in BOOLEAN : StartRetryFire(ok))

\* the steps of Spec in which observer.observe does not throw
NextStart ==
    \/ \E r \in Responses : SettingsResponse(r, TRUE)
    \/ BackoffElapsed
    \/ \E m \in Payloads : OnUpdateState(m, TRUE)
    \/ BodyAvailable
    \/ DOMContentLoaded
    \/ InitialScanFire
    \/ SecondScanFire
    \/ StartRetryFire(TRUE)
    \/ BeforeUnload

\* the same, where the document body becomes available in the end and a
\* pending 100 ms start retry timer fires in the end
SpecStart ==
    /\ Init
    /\ [][NextStart]_vars
    /\ WF_vars(BodyAvailable)
    /\ WF_vars(StartRetryFire(TRUE))

\* initialize has just completed on an active page: the initial scan and the
\* fallback scan are scheduled and startObserver has been called
InitRunning ==
    /\ dom \in PageDoms
    /\ currentHostname = ThisHost
    /\ isEnabled = "true"
    /\ excludedSites = <<>>
    /\ \/ /\ body = FALSE /\ readyState = "loading"
          /\ dclListener = TRUE /\ initialScanTimer = FALSE
          /\ observer = FALSE /\ observerActive = FALSE
          /\ liveObservers = 0 /\ startRetries = 1
       \/ /\ body = TRUE /\ readyState = "loading"
          /\ dclListener = TRUE /\ initialScanTimer = FALSE
          /\ observer = TRUE /\ observerActive = TRUE
          /\ liveObservers = 1 /\ startRetries = 0
       \/ /\ body = TRUE /\ readyState = "complete"
          /\ dclListener = FALSE /\ initialScanTimer = TRUE
          /\ observer = TRUE /\ observerActive = TRUE
          /\ liveObservers = 1 /\ startRetries = 0
    /\ schedule = [NoSchedule EXCEPT !.initialFirst = initialScanTimer]
    /\ secondScanTimer = TRUE
    /\ fallbackPending = TRUE
    /\ records = <<>>
    /\ debounceTimer = NoTimer
    /\ pc = "done"
    /\ attempt = 1
    /\ delay = 0
    /\ escaped = FALSE
    /\ scanLog = {}
    /\ responses = <<>>
    /\ unloadRan = FALSE
    /\ lastPass = NoPass
    /\ pageOps = 0
    /\ msgs = 0
    /\ background = BackgroundIdle

\* the content script after initialization, on a page that mutates its document
NextRunning ==
    \/ \E m \in Payloads, ok \in BOOLEAN : OnUpdateState(m, ok)
    \/ BodyAvailable
    \/ DOMContentLoaded
    \/ InitialScanFire
    \/ SecondScanFire
    \/ \E ok \in BOOLEAN : StartRetryFire(ok)
    \/ DeliverRecords
    \/ DebounceFire
    \/ BeforeUnload
    \/ \E e \in Elems, t \in Texts : PageSetText(e, t)
    \/ \E e \in Elems : PageRemove(e)
    \/ \E e \in Elems : PageInsert(e)

SpecRunning == InitRunning /\ [][NextRunning]_vars

(***************************************************************************)
(* The correction engine on its own: the scan pass, the tree walker and    *)
(* the revert applied to documents drawn from a bounded set.               *)
(***************************************************************************)
\* one element with every combination of the properties the filter reads
FocusElements ==
    {[tag |-> k[1], editable |-> k[2], attached |-> att, text |-> txt,
      hidden |-> hid, cssDir |-> css, csFail |-> fail,
      dir |-> own[1], align |-> own[2], pageDir |-> own[1], pageAlign |-> own[2],
      processed |-> Absent, styled |-> FALSE, styleThrows |-> FALSE] :
        k \in {<<"P", FALSE>>, <<"DIV", FALSE>>, <<"PRE", FALSE>>, <<"P", TRUE>>,
              <<"DIV", TRUE>>},
        att \in BOOLEAN,
        txt \in {<<>>, Latin, Arabic},
        hid \in BOOLEAN,
        css \in {"", "rtl"},
        fail \in {"ok", "first", "second", "both"},
        own \in {<<"", "">>, <<"ltr", "">>, <<"", "center">>}}

\* an element without a style property (an Element that is not an HTMLElement,
\* e.g. one of a foreign XML namespace), with a listed tag name
ThrowingElements ==
    {[Element("P", txt) EXCEPT !.styleThrows = TRUE, !.dir = own, !.pageDir = own] :
        txt \in {Latin, Arabic}, own \in {"", "ltr"}}

\* the elements around it
PlainElements ==
    {Element(tag, txt) : tag \in {"P", "PRE"}, txt \in {Latin, Arabic}}

\* documents the system has not touched yet
EngineDoms ==
    {[e \in Elems |-> IF e = f THEN el ELSE others[e]] :
        f \in Elems, el \in FocusElements \cup ThrowingElements,
        others \in [Elems -> PlainElements]}

InitEngine ==
    /\ dom \in EngineDoms
    /\ currentHostname = ThisHost
    /\ isEnabled = "true"
    /\ excludedSites = <<>>
    /\ body = TRUE
    /\ readyState = "complete"
    /\ dclListener = FALSE
    /\ initialScanTimer = FALSE
    /\ schedule = NoSchedule
    /\ observer = TRUE
    /\ observerActive = TRUE
    /\ liveObservers = 1
    /\ startRetries = 0
    /\ secondScanTimer = FALSE
    /\ fallbackPending = FALSE
    /\ records = <<>>
    /\ debounceTimer = NoTimer
    /\ pc = "done"
    /\ attempt = 1
    /\ delay = 0
    /\ escaped = FALSE
    /\ scanLog = {}
    /\ responses = <<>>
    /\ unloadRan = FALSE
    /\ lastPass = NoPass
    /\ pageOps = 0
    /\ msgs = 0
    /\ background = BackgroundIdle

engineFrame ==
    UNCHANGED <<pageVars, settingsVars, currentHostname, background, observerVars,
                debounceTimer, initialScanTimer, dclListener, schedule, retrievalVars,
                scanLog, responses, unloadRan, lastPass, budgetVars>>

\* runScan(reason) on the document
ScanPass ==
    /\ dom' = runScan(dom, isEnabled, excludedSites, currentHostname).dom
    /\ engineFrame

\* checkAndFixNode(node), as the mutation handler calls it
TreeWalk(node) ==
    /\ dom' = checkAndFixNode(dom, node)
    /\ engineFrame

\* revertAllStyles()
Revert ==
    /\ dom' = revertAllStyles(dom)
    /\ engineFrame

NextEngine ==
    \/ ScanPass
    \/ \E node \in Nodes : TreeWalk(node)
    \/ Revert

SpecEngine == InitEngine /\ [][NextEngine]_vars

(***************************************************************************)
(* The running subscription under a page that keeps changing its text,     *)
(* with the time of the debounce timer made explicit.                      *)
(***************************************************************************)
\* TickMs ms pass while the debounce timer is pending
Tick ==
    /\ debounceTimer.pending
    /\ debounceTimer.left > 0
    /\ debounceTimer' = [debounceTimer EXCEPT
                            !.left = IF @ > TickMs THEN @ - TickMs ELSE 0]
    /\ UNCHANGED <<dom, pageVars, settingsVars, currentHostname, background,
                   observerVars, initialScanTimer, dclListener, schedule, retrievalVars,
                   scanLog, responses, unloadRan, lastPass, budgetVars>>

\* the debounce timer fires when its time has run out
DebounceExpire ==
    /\ debounceTimer.left = 0
    /\ DebounceFire

\* the page changes the text of paragraph e, as often as it likes
StormSetText(e, t) ==
    /\ dom[e].tag = "P"
    /\ t # dom[e].text
    /\ Len(records) < MaxBatch
    /\ dom' = [dom EXCEPT ![e].text = t]
    /\ records' = queueRecord(dom, e, IF dom[e].text = <<>>
                                      THEN ChildList(TextNode(e))
                                      ELSE CharacterData(e))
    /\ UNCHANGED <<pageVars, settingsVars, currentHostname, background, observer,
                   observerActive, liveObservers, startRetries, secondScanTimer,
                   fallbackPending, debounceTimer, initialScanTimer,
                   dclListener, schedule, retrievalVars, scanLog, responses, unloadRan,
                   lastPass, budgetVars>>

\* initialize has just completed on an active page whose document is loaded
InitStorm ==
    /\ InitRunning
    /\ body = TRUE
    /\ readyState = "complete"

NextStorm ==
    \/ InitialScanFire
    \/ SecondScanFire
    \/ \E e \in Elems, t \in Texts : StormSetText(e, t)
    \/ DeliverRecords
    \/ Tick
    \/ DebounceExpire

\* time advances, and a timer whose time has run out fires
SpecStorm ==
    /\ InitStorm
    /\ [][NextStorm]_vars
    /\ WF_vars(Tick)
    /\ WF_vars(DebounceExpire)

(***************************************************************************)
(* The background script serving addExcludedSite and removeExcludedSite    *)
(* requests of the popup.                                                  *)
(***************************************************************************)
contentVars == <<dom, body, readyState, isEnabled, excludedSites,
                 currentHostname, observer, observerActive, secondScanTimer,
                 liveObservers, records, debounceTimer, initialScanTimer,
                 dclListener, schedule, fallbackPending, startRetries, pc, attempt, delay,
                 escaped, scanLog, responses, unloadRan, lastPass, pageOps, msgs>>

\* the listener receives { action: action, payload: h } (payload: en for
\* toggleEnabled): the handler starts and awaits getSettings()
BgReceive(i, action, h, en) ==
    /\ background.handlers[i].pc = "idle"
    /\ action = "getSettings" =>
          /\ pc = "request"
          /\ \A j \in 1..NumHandlers : background.handlers[j].action # "getSettings"
                                       \/ background.handlers[j].pc = "idle"
    /\ background' =
          [background EXCEPT
             !.handlers = [j \in 1..NumHandlers |->
                 IF j = i
                 THEN [IdleHandler EXCEPT
                         !.pc = "get", !.action = action, !.hostname = h,
                         !.payload = en,
                         !.clean = ~inFlight(background, i, h)]
                 ELSE IF @[j].pc # "idle" /\ @[j].hostname = h
                      THEN [@[j] EXCEPT !.clean = FALSE]
                      ELSE @[j]]]
    /\ UNCHANGED contentVars

\* getSettings() returns. A getSettings request is answered with the settings,
\* which initialize of the content script receives; a toggleEnabled handler
\* awaits storage.local.set; an add or remove handler tests the list and either
\* changes its copy and awaits storage.local.set, or answers { success: false }
BgGetSettings(i, getOk, observeOk) ==
    /\ background.handlers[i].pc = "get"
    /\ LET me == background.handlers[i]
           list == getSettings(background, getOk)
       IN  /\ background' =
                [background EXCEPT
                   !.handlers[i] =
                      IF me.action = "getSettings"
                      THEN [me EXCEPT !.pc = "idle", !.response = "settings"]
                      ELSE IF me.action = "toggleEnabled"
                      THEN [me EXCEPT !.pc = "set"]
                      ELSE IF applicable(me.action, list, me.hostname)
                      THEN [me EXCEPT
                              !.pc = "set",
                              !.settings = changedList(me.action, list, me.hostname)]
                      ELSE [me EXCEPT !.pc = "idle", !.response = "failure"]]
           /\ IF me.action = "getSettings"
              THEN settingsResponseArrives(
                      Response("object", getSettingsEnabled(background, getOk),
                               TRUE, list), observeOk)
              ELSE UNCHANGED contentVars

\* storage.local.set({ isEnabled }) or storage.local.set({ excludedSites })
\* returns or throws; the handler calls notifyAllTabs, which awaits tabs.query,
\* or the catch answers { success: false }
BgStorageSet(i, setOk) ==
    /\ background.handlers[i].pc = "set"
    /\ LET me == background.handlers[i]
       IN  background' =
             IF setOk
             THEN [background EXCEPT
                     !.storage = IF me.action = "toggleEnabled" THEN @
                                 ELSE me.settings,
                     !.enabled = IF me.action = "toggleEnabled" THEN me.payload
                                 ELSE @,
                     !.handlers[i].pc = "query",
                     !.handlers[i].log = Append(@, Event("set", "", TRUE))]
             ELSE [background EXCEPT !.handlers[i].pc = "idle",
                                     !.handlers[i].response = "failure"]
    /\ UNCHANGED contentVars

\* tabs.query returns the tabs with an http(s) address
BgTabsQuery(i, tabs) ==
    /\ background.handlers[i].pc = "query"
    /\ background' = [background EXCEPT !.handlers[i].pc = "notify",
                                        !.handlers[i].tabs = tabs]
    /\ UNCHANGED contentVars

\* one turn of the loop of notifyAllTabs: tabs.sendMessage to the next tab
\* returns, after the listener of the content script of that tab has handled
\* the message, or throws, which the loop catches. The listener of this
\* content script is registered all the time, the other tab may have none
BgNotifyTab(i, sendOk, observeOk) ==
    /\ background.handlers[i].pc = "notify"
    /\ ~loopDone(background.handlers[i])
    /\ LET me == background.handlers[i]
           tab == me.tabs[sends(me) + 1]
       IN  /\ tab = "this" => sendOk
           /\ background' =
                [background EXCEPT
                   !.handlers[i].log = Append(@, Event("send", tab, sendOk))]
           /\ IF tab = "this"
              THEN /\ updateStateListener(notification(me), observeOk)
                   /\ UNCHANGED msgs
              ELSE UNCHANGED contentVars

\* notifyAllTabs returns: the handler answers { success: true, ... }
BgRespond(i) ==
    /\ background.handlers[i].pc = "notify"
    /\ loopDone(background.handlers[i])
    /\ LET me == background.handlers[i]
       IN  background' =
             [background EXCEPT
                !.handlers[i].pc = "idle",
                !.handlers[i].response = "success",
                !.handlers[i].tabs = <<>>,
                !.handlers[i].log = <<>>,
                !.answered =
                    IF me.action = "toggleEnabled" THEN @
                    ELSE [@ EXCEPT ![me.hostname] =
                            IF ~me.clean THEN "none"
                            ELSE IF me.action = "addExcludedSite" THEN "added"
                            ELSE "removed"]]
    /\ UNCHANGED contentVars

InitBackground ==
    /\ dom \in PageDoms
    /\ currentHostname = ThisHost
    /\ body = TRUE /\ readyState = "complete"
    /\ ScriptLoaded

NextBackground ==
    \/ \E i \in 1..NumHandlers, h \in Hostnames,
          action \in {"addExcludedSite", "removeExcludedSite"} :
            BgReceive(i, action, h, "undefined")
    \/ \E i \in 1..NumHandlers, getOk \in BOOLEAN, observeOk \in BOOLEAN :
          BgGetSettings(i, getOk, observeOk)
    \/ \E i \in 1..NumHandlers, setOk \in BOOLEAN : BgStorageSet(i, setOk)
    \/ \E i \in 1..NumHandlers, tabs \in TabLists : BgTabsQuery(i, tabs)
    \/ \E i \in 1..NumHandlers, sendOk \in BOOLEAN, observeOk \in BOOLEAN :
          BgNotifyTab(i, sendOk, observeOk)
    \/ \E i \in 1..NumHandlers : BgRespond(i)

SpecBackground == InitBackground /\ [][NextBackground]_vars

(***************************************************************************)
(* The background script and the content script of one tab together: the  *)
(* content script asks for the settings while popup requests change them.  *)
(* The reads of the storage succeed.                                       *)
(***************************************************************************)
InitSync ==
    /\ dom = CHOOSE d \in PageDoms : d[2].text = Arabic
    /\ currentHostname = ThisHost
    /\ body = TRUE /\ readyState = "complete"
    /\ ScriptLoaded

NextSync ==
    \/ \E i \in 1..NumHandlers : BgReceive(i, "getSettings", "", "undefined")
    \/ \E i \in 1..NumHandlers, en \in {"true", "false"} :
          BgReceive(i, "toggleEnabled", "", en)
    \/ \E i \in 1..NumHandlers,
          action \in {"addExcludedSite", "removeExcludedSite"} :
            BgReceive(i, action, ThisHost, "undefined")
    \/ \E i \in 1..NumHandlers, observeOk \in BOOLEAN :
          BgGetSettings(i, TRUE, observeOk)
    \/ \E i \in 1..NumHandlers, setOk \in BOOLEAN : BgStorageSet(i, setOk)
    \/ \E i \in 1..NumHandlers, tabs \in TabLists : BgTabsQuery(i, tabs)
    \/ \E i \in 1..NumHandlers, sendOk \in BOOLEAN, observeOk \in BOOLEAN :
          BgNotifyTab(i, sendOk, observeOk)
    \/ \E i \in 1..NumHandlers : BgRespond(i)

SpecSync == InitSync /\ [][NextSync]_vars

\* a step of handler i: one of its awaits returns
HandlerStep(i) ==
    \/ \E observeOk \in BOOLEAN : BgGetSettings(i, TRUE, observeOk)
    \/ \E setOk \in BOOLEAN : BgStorageSet(i, setOk)
    \/ \E tabs \in TabLists : BgTabsQuery(i, tabs)
    \/ \E sendOk \in BOOLEAN, observeOk \in BOOLEAN :
          BgNotifyTab(i, sendOk, observeOk)
    \/ BgRespond(i)

\* the popup waits for the answer to a request before it sends the next one:
\* handler 1 serves the popup, the last handler the content script
NextSerial ==
    \/ BgReceive(NumHandlers, "getSettings", "", "undefined")
    \/ \E en \in {"true", "false"} : BgReceive(1, "toggleEnabled", "", en)
    \/ \E action \in {"addExcludedSite", "removeExcludedSite"} :
          BgReceive(1, action, ThisHost, "undefined")
    \/ \E i \in 1..NumHandlers : HandlerStep(i)

\* every await of a handler returns or throws in the end
SpecSerial ==
    /\ InitSync
    /\ [][NextSerial]_vars
    /\ \A i \in 1..NumHandlers : WF_vars(HandlerStep(i))

(***************************************************************************)
(* Properties.                                                             *)
(***************************************************************************)
\* Activation State: enabled and the current hostname not in excludedSites
ActivationState ==
    /\ isEnabled \in {"true", "str"}
    /\ \A i \in 1..Len(excludedSites) : excludedSites[i] # currentHostname

\* what the system writes on an element: inline direction, text alignment, markers
Written(d) ==
    [e \in Elems |-> <<d[e].dir, d[e].align, d[e].processed, d[e].styled>>]

\* C1: while Activation State is false (before and after the step), no step of
\* the system - whichever timer fires: initial-scan delay, fallback scan,
\* debounce, start retry - changes an element's inline direction, text
\* alignment or markers, runs a scan pass or creates a subscription.
C1_InactiveDoesNothing ==
    [][(~ActivationState /\ ~ActivationState')
        => /\ Written(dom') = Written(dom)
           /\ scanLog' = scanLog
           /\ liveObservers' <= liveObservers
           /\ (observer' => observer)]_vars

\* C1 witness: the page is inactive and the initial-scan timer has fired without
\* a scan, although the body was there and a paragraph with Arabic text waits
C1_Witness ==
    /\ ~ActivationState
    /\ readyState = "complete"
    /\ ~initialScanTimer
    /\ "Initial DOM Ready" \notin scanLog
    /\ liveObservers = 0
    /\ \E e \in Elems :
          /\ dom[e].tag = "P" /\ dom[e].text = Arabic
          /\ ~dom[e].styled /\ dom[e].processed = Absent

\* C2 (as claimed): until getSettingsWithRetry has returned, no scan has run,
\* no subscription exists and no element is styled or marked.
C2_NothingBeforeSettings ==
    pc \in {"request", "backoff"}
        => /\ scanLog = {}
           /\ liveObservers = 0
           /\ ~observer
           /\ \A e \in Elems : ~dom[e].styled /\ dom[e].processed = Absent

\* a settings-retrieval attempt that fails: the request throws, or the response
\* is missing or has an invalid shape
FailedResponse(r) ==
    \/ r.kind \in {"throw", "missing"}
    \/ r.isEnabled = "undefined"
    \/ ~r.isArray

\* C3: when the last of the maxRetries attempts fails like the ones before it,
\* getSettingsWithRetry returns null and initialize completes with isEnabled
\* false, no live subscription, no fallback scan timer, no scan scheduled by
\* initialize, and no exception leaving initialize.
C3_AllAttemptsFail ==
    [][\A r \in Responses :
         (FailedResponse(r) /\ attempt = maxRetries
            /\ \E ok \in BOOLEAN : SettingsResponse(r, ok))
         => /\ pc' = "failed"
            /\ ~escaped'
            /\ isEnabled' = "false"
            /\ liveObservers' = 0
            /\ ~observer' /\ ~observerActive'
            /\ ~fallbackPending' /\ ~secondScanTimer'
            /\ ~initialScanTimer' /\ ~dclListener']_vars

\* C3 witness: initialize has completed without settings after the last attempt,
\* on a page where a notification had started a subscription meanwhile
C3_Witness ==
    /\ pc = "failed"
    /\ attempt = maxRetries
    /\ isEnabled = "false"
    /\ liveObservers = 0
    /\ scanLog # {}

\* C4 (as claimed): when a notification makes Activation State false while the
\* subscription is running, then after the handler the subscription is stopped
\* and no element that carried the styled marker carries it or the overrides.
C4_DeactivationRevertsAll ==
    [][(ActivationState /\ ~ActivationState' /\ observerActive /\ liveObservers > 0)
        => /\ liveObservers' = 0
           /\ ~observerActive'
           /\ \A e \in Elems :
                dom[e].styled
                    => /\ ~dom'[e].styled
                       /\ dom'[e].dir # "rtl"
                       /\ dom'[e].align # "right"]_vars

\* C4 (amended): when a notification makes Activation State false while the
\* subscription is running, then after the handler the subscription is stopped
\* and no styled element that is in the document carries the styled marker or
\* the overrides any more.
C4_DeactivationRevertsDocument ==
    [][(ActivationState /\ ~ActivationState' /\ observerActive /\ liveObservers > 0)
        => /\ liveObservers' = 0
           /\ ~observerActive'
           /\ \A e \in Elems :
                (dom[e].styled /\ isConnected(dom, e))
                    => /\ ~dom'[e].styled
                       /\ dom'[e].processed = Absent
                       /\ dom'[e].dir = ""
                       /\ dom'[e].align = ""]_vars

\* C4 witness: the page has been deactivated, the subscription is gone, and the
\* Arabic paragraph the initial scan had styled on the unchanged page is unstyled
C4_Witness ==
    /\ ~ActivationState
    /\ liveObservers = 0
    /\ pageOps = 0
    /\ "Initial DOM Ready" \in scanLog
    /\ \E e \in Elems :
          /\ dom[e].tag = "P" /\ dom[e].text = Arabic /\ isConnected(dom, e)
          /\ ~dom[e].styled /\ dom[e].processed = Absent /\ dom[e].dir = ""

\* the proper ancestors of element e
RECURSIVE Ancestors(_, _)
Ancestors(d, e) ==
    IF Parent(e) = 0 \/ ~d[e].attached THEN {}
    ELSE {Parent(e)} \cup Ancestors(d, Parent(e))

\* the batch holds a character-data change of the text of e
TextChanged(batch, e) ==
    \E i \in 1..Len(batch) : batch[i] = CharacterData(e)

\* a step in which the debounce timer fires while the subscription is running
\* and the page is active
MutationPass ==
    /\ debounceTimer.pending /\ ~debounceTimer'.pending
    /\ ActivationState /\ observerActive /\ liveObservers > 0

\* the element whose text changed: unstyled, marked no-rtl or checked, visible,
\* in the document, rendered left-to-right, its text now holding an RTL character
C5_Changed(e) ==
    /\ TextChanged(debounceTimer.args, e)
    /\ ~dom[e].styled
    /\ dom[e].processed \in {"no-rtl", "checked-subtree", "scan-checked"}
    /\ ~dom[e].hidden
    /\ dom[e].csFail = "ok"
    /\ isConnected(dom, e)
    /\ computedDirection(dom, e) = "ltr"
    /\ RTL_REGEX_test(textContent(dom, e))

C5_Styled(e) ==
    /\ dom'[e].styled
    /\ dom'[e].processed = Absent
    /\ dom'[e].dir = "rtl"
    /\ dom'[e].align = "right"

C6_Idempotent ==
    [][(ScanPass \/ \E node \in Nodes : TreeWalk(node))
        => \A e \in Elems :
              dom[e].styled
                  => /\ dom'[e] = dom[e]
                     /\ ~isPotentialCandidate(dom, e).ret
                     /\ isPotentialCandidate(dom, e).dom = dom]_vars

\* C6 witness: a styled element with a scan-listed tag is in the document, where
\* the next scan pass and the next walk meet it again
C6_Witness ==
    \E e \in Elems :
        /\ dom[e].styled /\ dom[e].dir = "rtl" /\ dom[e].tag \in TARGET_TAGS
        /\ isConnected(dom, e)

\* C7 (as claimed): the fix followed by the revert gives the element back the
\* direction and text alignment it had before the fix, with no marker: an
\* element without markers is rendered in the direction that the inline value
\* the page gave it produces, and has the text-align value the page gave it.
C7_RoundTrip ==
    \A e \in Elems :
        (~dom[e].styled /\ dom[e].processed = Absent)
            => /\ computedDirection(dom, e)
                    = computedDirection([dom EXCEPT ![e].dir = dom[e].pageDir], e)
               /\ dom[e].align = dom[e].pageAlign

\* the skip set: script, style, noscript, code, pre, kbd, var, samp, textarea,
\* input, contenteditable="true", svg, math, iframe
InSkipSet(el) ==
    \/ el.tag \in {"SCRIPT", "STYLE", "NOSCRIPT", "CODE", "PRE", "KBD", "VAR",
                   "SAMP", "TEXTAREA", "INPUT", "SVG", "MATH", "IFRAME"}
    \/ el.editable

\* C8 (as claimed): the filter rejects every element of the skip set, and no
\* scan pass or tree walk styles such an element or writes a marker on it.
C8_SkipSetUntouched ==
    \A e \in Elems :
        InSkipSet(dom[e])
            => /\ ~isPotentialCandidate(dom, e).ret
               /\ ~dom[e].styled
               /\ dom[e].processed = Absent
               /\ dom[e].dir = dom[e].pageDir
               /\ dom[e].align = dom[e].pageAlign

\* C9: for every element whose computed style can be read, the filter accepts
\* iff the element is in the document, outside the skip set, unmarked, visible,
\* holds an RTL character and is not rendered rtl; an accepted element is left
\* by the fix with direction rtl, text-align right and the styled marker; a
\* rejected element keeps its styles and, when it was unmarked, in the document
\* and outside the skip set, gets the marker of the first failing check in the
\* order hidden, no-rtl, already-rtl; otherwise nothing is written.
C9_FilterDecision ==
    \A e \in Elems :
        dom[e].csFail = "ok" =>
            LET c == isPotentialCandidate(dom, e)
                el == dom[e]
                eligible == isConnected(dom, e) /\ ~InSkipSet(el)
                unmarked == ~el.styled /\ el.processed = Absent
                visible == ~el.hidden
                rtlText == \E i \in 1..Len(textContent(dom, e)) :
                              RTL_REGEX(textContent(dom, e)[i])
                notRtl == computedDirection(dom, e) # "rtl"
                fixed == applyRtlStyle(c.dom, e)
            IN  /\ c.ret <=> (eligible /\ unmarked /\ visible /\ rtlText /\ notRtl)
                /\ c.ret =>
                     /\ c.dom = dom
                     /\ fixed[e].dir = "rtl" /\ fixed[e].align = "right"
                     /\ fixed[e].styled /\ fixed[e].processed = Absent
                     /\ \A o \in Elems \ {e} : fixed[o] = dom[o]
                /\ ~c.ret =>
                     /\ c.dom = IF eligible /\ unmarked
                                THEN [dom EXCEPT ![e].processed =
                                        IF ~visible THEN "hidden"
                                        ELSE IF ~rtlText THEN "no-rtl"
                                        ELSE "already-rtl"]
                                ELSE dom

\* C9 witness: one element has been accepted and fixed, another one rejected as
\* already-rtl
C9_Witness ==
    /\ \E e \in Elems :
          dom[e].styled /\ dom[e].dir = "rtl" /\ dom[e].align = "right"
    /\ \E e \in Elems :
          dom[e].processed = "already-rtl" /\ ~dom[e].styled

\* C10: at most one mutation subscription is live.
C10_OneSubscription == liveObservers <= 1

\* C10 witness: a subscription is live while another start retry is still pending
C10_Witness == liveObservers = 1 /\ observer /\ startRetries > 0

\* C11: getSettingsWithRetry sends at most maxRetries requests and terminates:
\* the first valid response ends it with the settings of that response, a
\* failed attempt before the last one is followed by a wait of
\* 200 * 4^(attempt-1) ms (strictly increasing), the last failed attempt ends it
\* with null without a wait, and after the end no request is sent.
C11_BoundedRetry ==
    /\ [](/\ attempt \in 1..maxRetries
          /\ pc # "threw"
          /\ pc = "backoff" => attempt < maxRetries /\ delay = 200 * 4^(attempt - 1)
          /\ pc # "backoff" => delay = 0)
    /\ [][\A r \in Responses :
            (\E ok \in BOOLEAN : SettingsResponse(r, ok))
            => /\ ~FailedResponse(r)
                    => /\ pc' = "done"
                       /\ isEnabled' = r.isEnabled
                       /\ excludedSites' = r.excludedSites
               /\ (FailedResponse(r) /\ attempt < maxRetries)
                    => /\ pc' = "backoff"
                       /\ delay' = 200 * 4^(attempt - 1)
                       /\ attempt > 1 => delay' > 200 * 4^(attempt - 2)
               /\ (FailedResponse(r) /\ attempt = maxRetries)
                    => pc' = "failed" /\ delay' = 0]_vars
    /\ [][(pc = "done" \/ pc = "failed") => (pc' = pc /\ attempt' = attempt)]_vars
    /\ <>(pc \in {"done", "failed"})

\* C11 witness: the fifth request was answered with valid settings after four
\* failed attempts
C11_Witness ==
    pc = "done" /\ attempt = maxRetries /\ isEnabled = "true"

\* a response that is missing, lacks isEnabled, has a non-boolean isEnabled, or
\* whose excludedSites is not an array
Malformed(r) ==
    \/ r.kind = "missing"
    \/ r.isEnabled \notin {"true", "false"}
    \/ ~r.isArray

\* C12 (as claimed): a malformed response is never installed as the settings
\* snapshot; it counts as a failed attempt: the retrieval waits for the next
\* attempt or, after the last one, ends without settings.
C12_MalformedNeverInstalled ==
    [][\A r \in Responses :
         (r.kind # "throw" /\ Malformed(r)
            /\ \E ok \in BOOLEAN : SettingsResponse(r, ok))
         => /\ pc' \in {"backoff", "failed"}
            /\ isEnabled' \in {"true", "false"}]_vars

\* C13: a notification leaves the cached value of a field it does not carry
\* unchanged, and one whose present fields equal the cached values (or that
\* carries no field) changes neither the snapshot, the subscription, a timer nor
\* an element: no scan, no start, no stop, no revert.
C13_UpdateFrame ==
    [][\A m \in Payloads :
         (\E ok \in BOOLEAN : OnUpdateState(m, ok))
         => /\ m.isEnabled = "undefined" => isEnabled' = isEnabled
            /\ ~m.hasExcluded => excludedSites' = excludedSites
            /\ (/\ m.isEnabled \in {"undefined", isEnabled}
                /\ ~m.hasExcluded \/ m.excludedSites = excludedSites)
                  => UNCHANGED <<isEnabled, excludedSites, dom, scanLog, observer,
                                 observerActive, liveObservers, records,
                                 startRetries, secondScanTimer, fallbackPending,
                                 debounceTimer, initialScanTimer, dclListener, schedule>>]_vars

\* C13 witness: a notification has been handled on an enabled, unexcluded page
\* with a body that has no subscription and no scan, so that any re-check would
\* have scanned and started one
C13_Witness ==
    /\ msgs > 0
    /\ isEnabled = "true" /\ excludedSites = <<>> /\ currentHostname = ThisHost
    /\ body /\ ~observerActive /\ liveObservers = 0
    /\ scanLog = {}
    /\ pc = "done"

\* C14: every updateState notification is answered with { success: true },
\* exactly once, in the handler turn itself, whichever branch the handler takes.
C14_AnsweredOnce ==
    [][\A m \in Payloads :
         (\E ok \in BOOLEAN : OnUpdateState(m, ok))
         => responses' = <<[success |-> TRUE]>>]_vars

\* C14 witness: notifications have been answered after the handler had scanned
\* and started the subscription on one turn and stopped it on another
C14_Witness ==
    /\ msgs = MaxMsgs
    /\ responses = <<[success |-> TRUE]>>
    /\ "State Update Re-enable" \in scanLog
    /\ pc = "request"
    /\ ~observerActive /\ liveObservers = 0 /\ ~ActivationState

\* no handler is working on host name h
Settled(h) ==
    \A i \in 1..NumHandlers :
        background.handlers[i].pc = "idle" \/ background.handlers[i].hostname # h

\* C15 (as claimed): when no operation on h is running, h is in the stored
\* list if the last operation on h answered with success was addExcludedSite(h),
\* and absent if it was removeExcludedSite(h) - whatever other handlers did at
\* the same time.
C15_NoLostUpdate ==
    \A h \in Hosts :
        Settled(h)
            => /\ background.answered[h] = "added"
                    => includes(background.storage, h)
               /\ background.answered[h] = "removed"
                    => ~includes(background.storage, h)

\* C16: no element carries the styled marker together with a processed marker,
\* and every element with the styled marker has the inline direction rtl and
\* text-align right; after any sequence of scan passes, tree walks (those of
\* text changes included) and reverts.
C16_StyledExclusive ==
    \A e \in Elems :
        dom[e].styled
            => /\ dom[e].processed = Absent
               /\ dom[e].dir = "rtl"
               /\ dom[e].align = "right"

\* C16 witness: a styled element that had its own inline direction stands next
\* to an element with a processed marker; the passes have met both
C16_Witness ==
    /\ \E e \in Elems : dom[e].styled /\ dom[e].pageDir = "ltr"
    /\ \E e \in Elems : ~dom[e].styled /\ dom[e].processed \in ProcessedValues

\* the markers the filter writes when it decides on an unprocessed element
FilterMarkers == {"hidden", "no-rtl", "already-rtl", "style-error"}

\* a text change of e re-decides an unstyled, marked element from the new text
C17_Redecided(e) ==
    (~dom[e].styled /\ dom[e].processed \in ProcessedValues)
        => \/ dom'[e].styled /\ dom'[e].processed = Absent
           \/ ~dom'[e].styled /\ dom'[e].processed \in FilterMarkers

\* a text change of e that leaves a styled element without an RTL character
\* takes the styled marker and the overrides away
C17_Unstyled(e) ==
    (dom[e].styled /\ ~RTL_REGEX_test(textContent(dom, e)))
        => /\ ~dom'[e].styled
           /\ dom'[e].dir # "rtl"
           /\ dom'[e].align # "right"

\* C17 (as claimed): the pass that processes a text change of an element in the
\* document re-decides the element from its new text whatever its state was:
\* a marked element is decided anew, a styled element whose text has no RTL
\* character any more ends without the styled marker and the overrides.
C17_TextChangeResets ==
    [][MutationPass =>
        \A e \in Elems :
            (TextChanged(debounceTimer.args, e) /\ isConnected(dom, e)
               /\ ~matchesSkip(dom[e]))
                => C17_Redecided(e) /\ C17_Unstyled(e)]_vars

\* the part of C17 about marked, unstyled elements only
C17_MarkedRedecided ==
    [][MutationPass =>
        \A e \in Elems :
            (TextChanged(debounceTimer.args, e) /\ isConnected(dom, e)
               /\ ~matchesSkip(dom[e]))
                => C17_Redecided(e)]_vars

\* a step in which the debounce timer fires
TimerFires == debounceTimer.pending /\ ~debounceTimer'.pending

\* C18 (as claimed): on a page that has been active with the subscription
\* running all the time (no notification, no unload), every record that a
\* callback has delivered since the timer fired last is among the records the
\* processing pass hands to the tree walker - the records of the earlier
\* callbacks of a burst included.
C18_AllRecordsWalked ==
    [][(MutationPass /\ msgs = 0 /\ ~unloadRan)
        => lastPass.delivered \subseteq RecordsOf(debounceTimer.args)]_vars

\* debounce timers that are pending
PendingTimers ==
    Len(debounceTimer.stale) + (IF debounceTimer.pending THEN 1 ELSE 0)

\* C19: at most one debounce timer is pending at any time; when the timer
\* fires, one or more callbacks have preceded it, the pass runs with the batch
\* of the last of them, and no timer is left for a further pass; and when the
\* callbacks cease, a pending timer does fire.
C19_BurstOnePass ==
    /\ [](PendingTimers <= 1)
    /\ [][TimerFires
            => /\ lastPass.callbacks >= 1
               /\ debounceTimer.args = lastPass.last
               /\ lastPass'.batch = lastPass.last
               /\ lastPass'.burst = lastPass.callbacks
               /\ PendingTimers' = 0]_vars
    /\ (<>[](records = <<>>)) => [](debounceTimer.pending => <>(~debounceTimer.pending))

\* C19 witness: a pass has run after a burst of two or more callbacks, with the
\* batch of the last one, and no timer is pending
C19_Witness ==
    /\ lastPass.burst = 2
    /\ lastPass.batch # <<>>
    /\ PendingTimers = 0

\* C20 (as claimed): once a callback has delivered a notification, a processing
\* pass follows, also when further notifications keep arriving.
C20_PassFollows ==
    (lastPass.callbacks > 0) ~> (lastPass.callbacks = 0)

\* C21 (as claimed): whenever a mutation subscription is created, a
\* full-document scan pass has completed, in the same handler or before it.
C21_ScanBeforeSubscribe ==
    [][liveObservers' > liveObservers => scanLog' # {}]_vars

\* C22 (as claimed): when initialization found the page active and neither an
\* updateState notification nor a stop() has come since, the fallback scan has
\* not run before the DOM-ready scan, and once no timer or listener of the
\* initialization is pending exactly these two scan passes have run.
C22_DomReadyThenFallback ==
    (pc = "done" /\ msgs = 0 /\ ~unloadRan
        /\ shouldBeActive(isEnabled, excludedSites, currentHostname))
        => /\ "Delayed Second Scan" \in scanLog => "Initial DOM Ready" \in scanLog
           /\ (~initialScanTimer /\ ~dclListener /\ ~fallbackPending)
                => scanLog = {"Initial DOM Ready", "Delayed Second Scan"}

\* a handler turn in which stopObserver() is called: the unload handler, the
\* inactive and the failure branch of initialize, the deactivating branch of
\* the updateState listener
StopReturns ==
    \/ BeforeUnload
    \/ /\ \E r \in Responses, ok \in BOOLEAN : SettingsResponse(r, ok)
       /\ pc' = "done" \/ pc' = "failed"
       /\ ~shouldBeActive(isEnabled', excludedSites', currentHostname)
    \/ /\ \E m \in Payloads, ok \in BOOLEAN : OnUpdateState(m, ok)
       /\ isEnabled' # isEnabled \/ excludedSites' # excludedSites
       /\ ~shouldBeActive(isEnabled', excludedSites', currentHostname)
       /\ observerActive

\* C23 (as claimed): when stop() returns there is no live subscription,
\* observerActive is false and no fallback scan timer is pending, whether or
\* not a subscription existed; and after stop() has returned (here: in the
\* unload handler or in the failure branch of initialize) the fallback scan
\* callback never runs.
C23_StopIsFinal ==
    /\ [][StopReturns
            => /\ liveObservers' = 0
               /\ ~observer' /\ ~observerActive'
               /\ ~secondScanTimer' /\ ~fallbackPending']_vars
    /\ [][(unloadRan \/ pc = "failed") => ~SecondScanFire]_vars

\* the first part of C23 alone: the state in which stop() returns
C23_StoppedState ==
    [][StopReturns
            => /\ liveObservers' = 0
               /\ ~observer' /\ ~observerActive'
               /\ ~secondScanTimer' /\ ~fallbackPending']_vars

\* C24 (as claimed): once the beforeunload handler has run, the timers that
\* were pending at unload run no scan pass and no mutation-processing pass and
\* create no subscription (steps other than updateState notifications).
C24_NothingAfterUnload ==
    [][(unloadRan /\ msgs' = msgs)
         => /\ scanLog' = scanLog
            /\ ~(TimerFires /\ ~handleMutationsSkipped(isEnabled, observerActive,
                                                       excludedSites, currentHostname))
            /\ liveObservers' <= liveObservers]_vars

\* C25: between handlers, a live subscription implies that Activation State
\* derived from the cached snapshot is true, and observerActive is true
\* exactly when an observer object exists.
C25_LiveImpliesActive ==
    /\ liveObservers > 0 => ActivationState
    /\ observerActive <=> observer

\* C25 witness: initialize found the page active and its DOM-ready scan has
\* run, a notification has then made the page inactive, and no subscription is
\* live and no fallback scan is left
C25_Witness ==
    /\ ~ActivationState
    /\ liveObservers = 0 /\ ~observer /\ ~observerActive
    /\ pc = "done" /\ msgs = 1 /\ ~unloadRan
    /\ scanLog = {"Initial DOM Ready"}
    /\ ~fallbackPending

\* C26 (as claimed): the chain of start retries stops after finitely many
\* attempts - from some point on no 100 ms retry timer is pending - also when
\* the body never appears and the page stays active.
C26_RetryChainStops ==
    <>[](startRetries = 0)

\* an evaluation of e by the Candidate Filter in which a computed-style read
\* fails: the visibility read, which every evaluation of an unmarked element
\* makes, or the direction read, which is made when the element is visible
\* and its text holds an RTL character
C27_ReadFails(e) ==
    /\ ~matchesSkip(dom[e]) /\ isConnected(dom, e)
    /\ ~hasProcessed(dom[e]) /\ ~hasStyled(dom[e])
    /\ \/ dom[e].csFail \in {"first", "both"}
       \/ /\ dom[e].csFail = "second"
          /\ ~dom[e].hidden
          /\ RTL_REGEX_test(textContent(dom, e))

\* C27 (as claimed): when a computed-style read fails while the Candidate
\* Filter evaluates an element, here as the root of a tree walk, the element
\* is rejected and is not styled in that evaluation.
C27_StyleErrorRejects ==
    [][\A e \in Elems :
          (TreeWalk(ElemNode(e)) /\ C27_ReadFails(e))
              => /\ ~isPotentialCandidate(dom, e).ret
                 /\ ~dom'[e].styled]_vars

\* C27, the marker (as claimed): such an element is left with the marker
\* style-error.
C27_StyleErrorMarked ==
    [][\A e \in Elems :
          (TreeWalk(ElemNode(e)) /\ C27_ReadFails(e))
              => dom'[e].processed = "style-error"]_vars

\* the elements a walk from e meets: e and its descendants down to, and not
\* including, the elements of the skip set
RECURSIVE WalkSet(_, _)
WalkSet(d, e) ==
    IF matchesSkip(d[e]) \/ ~isConnected(d, e) THEN {}
    ELSE {e} \cup UNION {WalkSet(d, Children(d, e)[i]) : i \in 1..Len(Children(d, e))}

\* e has been evaluated: it carries the styled marker or a processed marker
Evaluated(d, e) == d[e].styled \/ d[e].processed \in ProcessedValues

\* C28 (as claimed): when the processing of one element throws during a scan
\* pass or a tree walk, every other element the pass meets is still processed:
\* the other listed elements of the scan, and the other elements of the walk,
\* the later siblings of the failing element and their subtrees included.
C28_FailureIsolated ==
    /\ [][ScanPass
            => \A x \in Elems :
                  (isConnected(dom, x) /\ dom[x].tag \in TARGET_TAGS
                      /\ ~dom[x].styleThrows)
                      => Evaluated(dom', x)]_vars
    /\ [][\A e \in Elems :
            TreeWalk(ElemNode(e))
               => \A x \in WalkSet(dom, e) :
                     ~dom[x].styleThrows => Evaluated(dom', x)]_vars

\* C29: a walk from a connected element outside the skip set, no element of
\* which throws, leaves the root and every descendant it reaches through
\* elements outside the skip set evaluated - under accepted and under rejected
\* ancestors alike - and leaves every other element, those below a skip-set
\* element included, as it was.
C29_WalkCoversSubtree ==
    [][\A e \in Elems :
          (TreeWalk(ElemNode(e)) /\ ~checkAndFixNodeBody(dom, ElemNode(e)).threw)
             => /\ \A x \in WalkSet(dom, e) : Evaluated(dom', x)
                /\ \A x \in Elems \ WalkSet(dom, e) : dom'[x] = dom[x]]_vars

\* C29 witness: a walk has left a rejected root of a tag that no scan pass
\* meets with a processed marker, and its two children evaluated, one of them
\* styled
C29_Witness ==
    /\ dom[1].tag \notin TARGET_TAGS
    /\ dom[1].processed \in ProcessedValues /\ ~dom[1].styled
    /\ dom[2].styled
    /\ Evaluated(dom, 3)

\* C30: a scan pass changes the styles and markers only of connected elements
\* whose tag is in the fixed list; every other element is left as it was, and
\* the pass creates no subscription, queues nothing and sets or clears no timer
\* or listener.
C30_ScanFrame ==
    [][ScanPass
         => /\ \A e \in Elems :
                  (dom[e].tag \notin TARGET_TAGS \/ ~isConnected(dom, e))
                      => dom'[e] = dom[e]
            /\ UNCHANGED <<observerVars, debounceTimer, initialScanTimer,
                           dclListener, schedule>>]_vars

\* C30 witness: a scan pass has styled a listed element and has left a DIV
\* that holds an RTL character, is visible and rendered ltr, without any marker
C30_Witness ==
    /\ \E x \in Elems : dom[x].styled /\ dom[x].tag \in TARGET_TAGS
    /\ \E e \in Elems :
          /\ dom[e].tag = "DIV" /\ isConnected(dom, e)
          /\ RTL_REGEX_test(textContent(dom, e))
          /\ ~dom[e].hidden /\ dom[e].csFail = "ok"
          /\ ~Evaluated(dom, e)

\* C31 (as claimed): when a notification makes Activation State false while
\* the subscription is running, the revert of the handler leaves no element of
\* the document with the styled marker or with a processed marker.
C31_RevertClearsAllMarkers ==
    [][(ActivationState /\ ~ActivationState' /\ observerActive /\ liveObservers > 0)
        => \A e \in Elems :
              isConnected(dom', e)
                  => /\ ~dom'[e].styled
                     /\ dom'[e].processed = Absent]_vars

\* C32 (as claimed): when a notification takes the current hostname out of
\* the exclusion list while the extension is enabled and the body exists, the
\* handler leaves the document as a revert of all styled elements followed by
\* a full-document scan leaves it, and the scan has run.
C32_RevertThenRescan ==
    [][(/\ msgs' > msgs
        /\ includes(excludedSites, currentHostname)
        /\ ~includes(excludedSites', currentHostname)
        /\ Truthy(isEnabled')
        /\ body)
        => /\ dom' = runScan(revertAllStyles(dom), isEnabled', excludedSites',
                             currentHostname).dom
           /\ "State Update Re-enable" \in scanLog']_vars

\* C33 (as claimed): the activation tests of initialize and of the updateState
\* listener (also the test of the fallback timer), the guard of runScan, the
\* guard of startObserver (no observer existing) and the guard of the mutation
\* handler (the subscription running) all give the value
\* enabled AND hostname NOT IN excludedSites for the cached snapshot.
C33_OneActivationTest ==
    /\ shouldBeActive(isEnabled, excludedSites, currentHostname) = ActivationState
    /\ ~runScanSkipped(isEnabled, excludedSites, currentHostname) = ActivationState
    /\ ~startObserverSkipped([ObserverState EXCEPT !.observer = FALSE],
                             isEnabled, excludedSites, currentHostname)
          = ActivationState
    /\ ~handleMutationsSkipped(isEnabled, TRUE, excludedSites, currentHostname)
          = ActivationState

C34_SnapshotConverges ==
    (/\ pc = "done"
     /\ \A i \in 1..NumHandlers : background.handlers[i].pc = "idle")
       => /\ isEnabled = background.enabled
          /\ excludedSites = background.storage

\* the requests that change the settings
ChangeActions == {"toggleEnabled", "addExcludedSite", "removeExcludedSite"}

\* the order of the steps of a handler that changes the settings: an answer
\* { success: true } follows the write and one send to every tab of tabs.query;
\* the write stores the value of the request; a send that fails leaves the
\* handler in its loop; no failure is answered after the write; the answer is
\* set once, when the handler ends
C36_HandlerOrder ==
    [][\A i \in 1..NumHandlers :
         LET me == background.handlers[i]
             after == background'.handlers[i]
         IN  /\ (after.response = "success" /\ me.response # "success")
                  => /\ me.action \in ChangeActions
                     /\ Len(me.log) = Len(me.tabs) + 1
                     /\ me.log[1] = Event("set", "", TRUE)
                     /\ \A k \in 1..Len(me.tabs) :
                           /\ me.log[k + 1].op = "send"
                           /\ me.log[k + 1].tab = me.tabs[k]
             /\ (me.log = <<>> /\ after.log # <<>>)
                  => IF me.action = "toggleEnabled"
                     THEN background'.enabled = me.payload
                     ELSE background'.storage = me.settings
             /\ (after.response = "failure" /\ me.response # "failure")
                  => me.log = <<>>
             /\ (\E sendOk, observeOk \in BOOLEAN :
                    BgNotifyTab(i, sendOk, observeOk))
                  => /\ after.pc = "notify"
                     /\ sends(after) = sends(me) + 1
             /\ after.response # me.response
                  => \/ me.pc = "idle" /\ after.response = "none"
                     \/ /\ me.response = "none" /\ me.pc # "idle"
                        /\ after.pc = "idle"]_vars

PageMutates == \E e \in Elems, t \in Texts : StormSetText(e, t)

\* C37: a step of the system (a scan, a processing pass) adds no record to the
\* queue of its own subscription, which asks for child-list and character-data
\* records only; and if from some time on the host page changes nothing, then
\* from some time on no debounce timer is pending, so no further pass runs.
C37_NoSelfNotification ==
    /\ [][~PageMutates => Len(records') <= Len(records)]_vars
    /\ (<>[][~PageMutates]_vars) => <>[](~debounceTimer.pending)

\* C37 witness: a processing pass has styled an element while the subscription
\* is live; no record is queued and no timer is pending
C37_Witness ==
    /\ liveObservers > 0
    /\ lastPass.batch # <<>>
    /\ \E e \in Elems : dom[e].styled /\ lastPass.processed[e] # Absent
    /\ records = <<>>
    /\ ~debounceTimer.pending

\* C38: an element that lies inside an element of the skip set (a proper
\* ancestor is a pre, a code, an editable element, ...) and is attached to it
\* is not styled.
C38_NoStyleInsideSkip ==
    \A e \in Elems :
        (\E a \in Ancestors(dom, e) : matchesSkip(dom[a])) => ~dom[e].styled

\* the page has been active since the content script started, the host page
\* is at rest and no timer, retry, listener or record is pending
Quiescent ==
    /\ msgs = 0 /\ ~unloadRan
    /\ ActivationState /\ observerActive /\ liveObservers > 0
    /\ body /\ readyState = "complete"
    /\ ~dclListener /\ ~initialScanTimer /\ ~fallbackPending
    /\ startRetries = 0
    /\ records = <<>>
    /\ ~debounceTimer.pending

\* element e is one the system is meant to fix: connected, visible, outside the
\* skip set, with a scan-listed tag and a right-to-left character in its text
NeedsRtl(e) ==
    /\ isConnected(dom, e)
    /\ ~dom[e].hidden
    /\ ~matchesSkip(dom[e])
    /\ dom[e].tag \in TARGET_TAGS
    /\ RTL_REGEX_test(textContent(dom, e))

\* C39: at quiescence every element that is meant to be fixed and whose
\* direction would otherwise compute to left-to-right carries the styled marker.
C39_CompleteAtQuiescence ==
    Quiescent =>
        \A e \in Elems :
            (NeedsRtl(e) /\ ~dom[e].styled) => computedDirection(dom, e) # "ltr"

\* C40: if from some time on Activation State is true (and the page is not
\* unloaded), then from some time on the mutation subscription is running.
C40_StartLiveness ==
    (<>[](ActivationState /\ ~unloadRan))
        => <>[](observerActive /\ liveObservers > 0)

\* the same for a page with a host name
C40_StartLivenessWithHostname ==
    (<>[](ActivationState /\ ~unloadRan /\ currentHostname # ""))
        => <>[](observerActive /\ liveObservers > 0)

====
